---- MODULE Spec2Model ----
(***************************************************************************)
(* The claim-process-commit poller of sipin-pg-webhook-events-dispatcher:  *)
(* PgEventsPoller (src/app/app.py) working on the webhook_events table     *)
(* through DbClient (src/app/services/db.py), with SvixRouter and          *)
(* SvixClient as collaborators.                                            *)
(*                                                                         *)
(* db is the committed content of webhook_events.  Each poller instance    *)
(* owns at most one open transaction, tx[p]: the uncommitted versions of   *)
(* the rows it has locked.  PostgreSQL READ COMMITTED is modelled at       *)
(* statement granularity: a statement sees db plus its own tx, and rows    *)
(* locked by another transaction are skipped by FOR UPDATE SKIP LOCKED.    *)
(* Time is one clock in whole seconds, shared by the store and the poller. *)
(* The two sleeps of the loop end at an arbitrary later moment.            *)
(***************************************************************************)
EXTENDS Integers, Sequences, FiniteSets, TLC

\* ---- bounds of the model
NumPollers == 2
NumRows == 2
MaxTime == 2
MaxBackoffAttempts == 24

\* ---- constants of the program
MAX_ATTEMPTS == 20
BATCH_LIMIT == 100
BACKOFF_CAP_S == 900
ERROR_LEFT == 1000

Pollers == 1..NumPollers
RowIds == 1..NumRows
NULL == "NULL"

\* Attempt counts of the rows the store holds when the pollers start: row 1
\* may have been retried by earlier runs (not at all, up to and over the cap
\* of the backoff, up to its last attempt), the rows after it are fresh.
InitAttempts(i) == IF i = 1 THEN {0, 9, 10, MAX_ATTEMPTS - 2, MAX_ATTEMPTS - 1} ELSE {0}

\* The bucket -> application mapping the router is built from, and the
\* buckets rows come from (bucket-x is not in the mapping).
BucketMap == [b \in {"bucket-a"} |-> "app_a"]
Buckets == {"bucket-a", "bucket-x"}

\* The length of the error text the handler stores, repr(exception): a
\* validation error lists the rejected fields and is the long one.
ErrLen(kind) == IF kind = "validation" THEN 1500 ELSE 40
\* The confirmation id the gateway answers a message with.
ConfId(i) == <<"msg", i>>
\* The jitter multiplier random.uniform(0.8, 1.2), in percent.
Jitter == {80, 100, 120}

VARIABLES db, now, pc, should_continue, tx, tx_start, rows, todo, handled, snapshot, gateway

\* Two observers of the program. calls[i] is the number of gateway calls made
\* for event i; it is counted by the specification of the retry bound
\* (SpecRetry) only. backoff is one call of _backoff_seconds, its arguments
\* and its result (0 before the call); it is used by SpecBackoff only.
VARIABLES calls, backoff

aux == <<calls, backoff>>

vars == <<pc, todo, now, should_continue, db, tx, tx_start, rows, handled, snapshot, gateway,
          calls, backoff>>

NoRows == [i \in {} |-> NULL]

NoBackoff == [attempts |-> 0, u |-> 100, seconds |-> 0]

Min(a, b) == IF a <= b THEN a ELSE b
Max(a, b) == IF a >= b THEN a ELSE b

RECURSIVE Pow2(_)
Pow2(n) == IF n = 0 THEN 1 ELSE 2 * Pow2(n - 1)

\* ---- SvixRouter.route
Route(s3_bucket) ==
  LET app_id == IF s3_bucket \in DOMAIN BucketMap THEN BucketMap[s3_bucket] ELSE NULL
  IN IF app_id = NULL \/ app_id = "" THEN NULL ELSE app_id

\* An idempotency key that leaves the event id out.
IdempotencyKeyShared(event_id) == <<"webhook_events">>

\* ---- SvixClient.post_event: the idempotency key f"webhook_events:{event_id}"
IdempotencyKey(event_id) == <<"webhook_events", event_id>>

\* _backoff_seconds without the cap on the base.
BackoffSecondsNoCap(attempts, u) ==
  LET base == Pow2(Max(0, attempts))
  IN Max(1, (base * u) \div 100)

\* ---- PgEventsPoller._backoff_seconds, for a jitter multiplier of u percent;
\* int() truncates.
BackoffSeconds(attempts, u) ==
  LET base == Min(BACKOFF_CAP_S, Pow2(Max(0, attempts)))
  IN Max(1, (base * u) \div 100)

\* ---- PgEventsPoller.calculate_next_timestamp_to_retry
NextTimestampToRetry(attempts, u) == now + BackoffSeconds(attempts, u)

\* ---- SQL left(err, 1000) on a text of length err
Left(err, n) == Min(err, n)

\* Rows locked by an open transaction.
Locked == UNION {DOMAIN tx[p] : p \in Pollers}

\* FETCH_SQL without SKIP LOCKED taking effect: locked rows are picked too.
PickedNoSkip(store, locked, t, limit) ==
  LET cand == {i \in DOMAIN store : /\ store[i].status = "pending"
                                    /\ store[i].next_attempt_at <= t}
  IN {i \in cand : Cardinality({j \in cand : j < i}) < limit}

\* FETCH_SQL without the status condition.
PickedAnyStatus(store, locked, t, limit) ==
  LET cand == {i \in DOMAIN store : /\ store[i].next_attempt_at <= t
                                    /\ i \notin locked}
  IN {i \in cand : Cardinality({j \in cand : j < i}) < limit}

\* FETCH_SQL with a limit one too large.
PickedOneMore(store, locked, t, limit) ==
  LET cand == {i \in DOMAIN store : /\ store[i].status = "pending"
                                    /\ store[i].next_attempt_at <= t
                                    /\ i \notin locked}
  IN {i \in cand : Cardinality({j \in cand : j < i}) <= limit}

\* ---- FETCH_SQL: the ids picked by the CTE, at store time t
Picked(store, locked, t, limit) ==
  LET cand == {i \in DOMAIN store : /\ store[i].status = "pending"
                                    /\ store[i].next_attempt_at <= t
                                    /\ i \notin locked}
  IN {i \in cand : Cardinality({j \in cand : j < i}) < limit}

\* ---- FETCH_SQL: SET status = 'sending'
Claimed(r) == [r EXCEPT !.status = "sending"]

\* ---- FETCH_SQL: RETURNING w.id, w.attempts, w.s3_bucket
Returned(r) == [attempts |-> r.attempts, s3_bucket |-> r.s3_bucket]

\* mark_skipped charging an attempt.
MarkSkippedCharged(r) == [r EXCEPT !.status = "skipped", !.attempts = @ + 1]

\* ---- DbClient.mark_*: the UPDATE of one row
MarkSkipped(r) == [r EXCEPT !.status = "skipped"]

\* mark_sent recording the delivery without setting the status.
MarkSentStaysSending(r, svix_id, t) ==
  [r EXCEPT !.sent_at = t, !.error = NULL, !.svix_id = svix_id]

MarkSent(r, svix_id, t) ==
  [r EXCEPT !.status = "sent", !.sent_at = t, !.error = NULL, !.svix_id = svix_id]

\* mark_pending charging an attempt.
MarkPendingCharged(r) == [r EXCEPT !.status = "pending", !.attempts = @ + 1]

MarkPending(r) == [r EXCEPT !.status = "pending"]

\* mark_dead leaving the attempt count as it was.
MarkDeadKeepsAttempts(r, attempts, err) ==
  [r EXCEPT !.status = "dead", !.error = Left(err, ERROR_LEFT)]

MarkDead(r, attempts, err) ==
  [r EXCEPT !.status = "dead", !.attempts = attempts, !.error = Left(err, ERROR_LEFT)]

\* mark_retry with the comparison off by one: attempts > MAX_ATTEMPTS.
MarkRetryOffByOne(r, attempts, err, next_attempt_at) ==
  IF attempts > MAX_ATTEMPTS
  THEN MarkDead(r, attempts, err)
  ELSE [r EXCEPT !.status = "pending", !.attempts = attempts,
                 !.next_attempt_at = next_attempt_at,
                 !.error = Left(err, ERROR_LEFT)]

\* mark_retry without the test against MAX_ATTEMPTS.
MarkRetryNeverDead(r, attempts, err, next_attempt_at) ==
  [r EXCEPT !.status = "pending", !.attempts = attempts,
            !.next_attempt_at = next_attempt_at,
            !.error = Left(err, ERROR_LEFT)]

MarkRetry(r, attempts, err, next_attempt_at) ==
  IF attempts >= MAX_ATTEMPTS
  THEN MarkDead(r, attempts, err)
  ELSE [r EXCEPT !.status = "pending", !.attempts = attempts,
                 !.next_attempt_at = next_attempt_at,
                 !.error = Left(err, ERROR_LEFT)]

\* ---- the store when the pollers start
InitRow(bucket, attempts) ==
  [status |-> "pending", attempts |-> attempts, next_attempt_at |-> 0,
   error |-> IF attempts = 0 THEN NULL ELSE 40, sent_at |-> NULL, svix_id |-> NULL,
   s3_bucket |-> bucket]

Init ==
  /\ db \in {s \in [RowIds -> {InitRow(b, a) : b \in Buckets, a \in 0..(MAX_ATTEMPTS - 1)}] :
               \A i \in RowIds : s[i].attempts \in InitAttempts(i)}
  /\ now = 0
  /\ pc = [p \in Pollers |-> "loop"]
  /\ should_continue = [p \in Pollers |-> TRUE]
  /\ tx = [p \in Pollers |-> NoRows]
  /\ tx_start = [p \in Pollers |-> 0]
  /\ rows = [p \in Pollers |-> NoRows]
  /\ todo = [p \in Pollers |-> {}]
  /\ handled = [p \in Pollers |-> NoRows]
  /\ snapshot = [p \in Pollers |-> NoRows]
  /\ gateway = {}
  /\ calls = [i \in RowIds |-> 0]
  /\ backoff = NoBackoff

\* ---- signal handler / PgEventsPoller.stop
Stop(p) ==
  /\ pc[p] \notin {"stopped", "crashed"}
  /\ should_continue[p]
  /\ should_continue' = [should_continue EXCEPT ![p] = FALSE]
  /\ UNCHANGED <<db, now, pc, tx, tx_start, rows, todo, handled, snapshot, gateway>>

\* ---- start_polling: while self.should_continue
LoopTest(p) ==
  /\ pc[p] = "loop"
  /\ pc' = [pc EXCEPT ![p] = IF should_continue[p] THEN "fetch" ELSE "stopped"]
  /\ UNCHANGED <<db, now, should_continue, tx, tx_start, rows, todo, handled, snapshot, gateway>>

\* ---- start_polling: rows = fetch_batch(cur); an empty result rolls back and
\* sleeps, any other result opens the batch.
FetchBatch(p) ==
  /\ pc[p] = "fetch"
  /\ LET ids == Picked(db, Locked, now, BATCH_LIMIT) IN
       IF ids = {}
       THEN /\ pc' = [pc EXCEPT ![p] = "idle_sleep"]
            /\ UNCHANGED <<tx, tx_start, rows, todo, handled, snapshot>>
       ELSE /\ pc' = [pc EXCEPT ![p] = "handle"]
            /\ tx' = [tx EXCEPT ![p] = [i \in ids |-> Claimed(db[i])]]
            /\ tx_start' = [tx_start EXCEPT ![p] = now]
            /\ rows' = [rows EXCEPT ![p] = [i \in ids |-> Returned(db[i])]]
            /\ todo' = [todo EXCEPT ![p] = ids]
            /\ handled' = [handled EXCEPT ![p] = NoRows]
            /\ snapshot' = [snapshot EXCEPT ![p] = [i \in ids |-> db[i]]]
  /\ UNCHANGED <<db, now, should_continue, gateway>>

\* The row the batch loop takes next: RETURNING gives the rows of the batch in
\* no guaranteed order.
NextRows(p) == todo[p]

\* The batch loop leaving the batch as soon as the stop flag is set.
WrittenThenBreak(p, i, r, kind) ==
  /\ tx' = [tx EXCEPT ![p][i] = r]
  /\ todo' = [todo EXCEPT ![p] = @ \ {i}]
  /\ handled' = [handled EXCEPT ![p] = [j \in DOMAIN @ \cup {i} |-> IF j = i THEN kind ELSE @[j]]]
  /\ pc' = [pc EXCEPT ![p] = IF todo[p] = {i} \/ ~should_continue[p] THEN "commit" ELSE "handle"]
  /\ UNCHANGED snapshot

\* The end of one pass of "for row in rows": the outcome is written inside the
\* batch transaction and the loop goes on, or falls through to conn.commit().
Written(p, i, r, kind) ==
  /\ tx' = [tx EXCEPT ![p][i] = r]
  /\ todo' = [todo EXCEPT ![p] = @ \ {i}]
  /\ handled' = [handled EXCEPT ![p] = [j \in DOMAIN @ \cup {i} |-> IF j = i THEN kind ELSE @[j]]]
  /\ pc' = [pc EXCEPT ![p] = IF todo[p] = {i} THEN "commit" ELSE "handle"]
  /\ UNCHANGED snapshot

\* The call of the gateway: what it receives.
Message(i, app_id) == [app_id |-> app_id, event_id |-> i, key |-> IdempotencyKey(i)]

\* The handler returning for an unroutable row without writing an outcome.
HandleUnroutableNoWrite(p, i) ==
  /\ pc[p] = "handle"
  /\ i \in NextRows(p)
  /\ Route(rows[p][i].s3_bucket) = NULL
  /\ Written(p, i, tx[p][i], "skipped")
  /\ UNCHANGED <<db, now, should_continue, tx_start, rows, gateway>>

\* ---- _handle_webhook_event: no application for the bucket
HandleUnroutable(p, i) ==
  /\ pc[p] = "handle"
  /\ i \in NextRows(p)
  /\ Route(rows[p][i].s3_bucket) = NULL
  /\ Written(p, i, MarkSkipped(tx[p][i]), "skipped")
  /\ UNCHANGED <<db, now, should_continue, tx_start, rows, gateway>>

\* ---- _handle_webhook_event: post_event returns a MessageOut
HandleSent(p, i) ==
  /\ pc[p] = "handle"
  /\ i \in NextRows(p)
  /\ Route(rows[p][i].s3_bucket) # NULL
  /\ gateway' = gateway \cup {Message(i, Route(rows[p][i].s3_bucket))}
  /\ Written(p, i, MarkSent(tx[p][i], ConfId(i), tx_start[p]), "sent")
  /\ UNCHANGED <<db, now, should_continue, tx_start, rows>>

\* ---- _handle_webhook_event: except HTTPValidationError
HandleValidationError(p, i) ==
  /\ pc[p] = "handle"
  /\ i \in NextRows(p)
  /\ Route(rows[p][i].s3_bucket) # NULL
  /\ gateway' = gateway \cup {Message(i, Route(rows[p][i].s3_bucket))}
  /\ Written(p, i, MarkDead(tx[p][i], rows[p][i].attempts + 1, ErrLen("validation")),
             "validation")
  /\ UNCHANGED <<db, now, should_continue, tx_start, rows>>

\* ---- _handle_webhook_event: except HttpError with status_code == 401
HandleAuthError(p, i) ==
  /\ pc[p] = "handle"
  /\ i \in NextRows(p)
  /\ Route(rows[p][i].s3_bucket) # NULL
  /\ gateway' = gateway \cup {Message(i, Route(rows[p][i].s3_bucket))}
  /\ should_continue' = [should_continue EXCEPT ![p] = FALSE]
  /\ Written(p, i, MarkPending(tx[p][i]), "auth")
  /\ UNCHANGED <<db, now, tx_start, rows>>

\* The retry time computed from the attempt count after the increment.
RetriedPostIncrement(p, i, kind, u) ==
  MarkRetry(tx[p][i], rows[p][i].attempts + 1, ErrLen(kind),
            NextTimestampToRetry(rows[p][i].attempts + 1, u))

\* The two transient branches do the same: compute the retry time from the
\* attempts read at claim time, and mark_retry with attempts + 1.
Retried(p, i, kind, u) ==
  MarkRetry(tx[p][i], rows[p][i].attempts + 1, ErrLen(kind),
            NextTimestampToRetry(rows[p][i].attempts, u))

\* ---- _handle_webhook_event: except HttpError with another status code
HandleHttpError(p, i) ==
  /\ pc[p] = "handle"
  /\ i \in NextRows(p)
  /\ Route(rows[p][i].s3_bucket) # NULL
  /\ gateway' = gateway \cup {Message(i, Route(rows[p][i].s3_bucket))}
  /\ \E u \in Jitter : Written(p, i, Retried(p, i, "http", u), "transient")
  /\ UNCHANGED <<db, now, should_continue, tx_start, rows>>

\* The handler without its last except clause: the exception of the gateway
\* call leaves the batch loop and the batch is rolled back.
HandleExceptionEscapes(p, i) ==
  /\ pc[p] = "handle"
  /\ i \in NextRows(p)
  /\ Route(rows[p][i].s3_bucket) # NULL
  /\ gateway' = gateway \cup {Message(i, Route(rows[p][i].s3_bucket))}
  /\ tx' = [tx EXCEPT ![p] = NoRows]
  /\ tx_start' = [tx_start EXCEPT ![p] = 0]
  /\ todo' = [todo EXCEPT ![p] = {}]
  /\ rows' = [rows EXCEPT ![p] = NoRows]
  /\ handled' = [handled EXCEPT ![p] = NoRows]
  /\ snapshot' = [snapshot EXCEPT ![p] = NoRows]
  /\ pc' = [pc EXCEPT ![p] = "fault_sleep"]
  /\ UNCHANGED <<db, now, should_continue>>

\* ---- _handle_webhook_event: except Exception
HandleException(p, i) ==
  /\ pc[p] = "handle"
  /\ i \in NextRows(p)
  /\ Route(rows[p][i].s3_bucket) # NULL
  /\ gateway' = gateway \cup {Message(i, Route(rows[p][i].s3_bucket))}
  /\ \E u \in Jitter : Written(p, i, Retried(p, i, "exception", u), "transient")
  /\ UNCHANGED <<db, now, should_continue, tx_start, rows>>

\* The transaction is over: its locks and its uncommitted versions are gone.
EndTx(p) ==
  /\ tx' = [tx EXCEPT ![p] = NoRows]
  /\ tx_start' = [tx_start EXCEPT ![p] = 0]
  /\ todo' = [todo EXCEPT ![p] = {}]

\* The cycle's record of its batch is dropped.
Forget(p) ==
  /\ rows' = [rows EXCEPT ![p] = NoRows]
  /\ handled' = [handled EXCEPT ![p] = NoRows]
  /\ snapshot' = [snapshot EXCEPT ![p] = NoRows]

\* ---- start_polling: conn.commit()
Committed(store, writes) ==
  [i \in DOMAIN store |-> IF i \in DOMAIN writes THEN writes[i] ELSE store[i]]

Commit(p) ==
  /\ pc[p] = "commit"
  /\ db' = Committed(db, tx[p])
  /\ EndTx(p)
  /\ Forget(p)
  /\ pc' = [pc EXCEPT ![p] = "loop"]
  /\ UNCHANGED <<now, should_continue, gateway>>

\* An abort that keeps the outcomes already written by the batch.
RolledBackKeepsWritten(store, writes) ==
  [i \in DOMAIN store |->
     IF i \in DOMAIN writes /\ writes[i].status # "sending" THEN writes[i] ELSE store[i]]

\* What an aborted transaction leaves of the store.
RolledBack(store, writes) == store

\* ---- start_polling: except Exception. A fault of the store (no connection,
\* a failing statement or commit) leaves the with-blocks, which roll back.
StoreFault(p) ==
  /\ pc[p] \in {"fetch", "handle", "commit"}
  /\ db' = RolledBack(db, tx[p])
  /\ EndTx(p)
  /\ Forget(p)
  /\ pc' = [pc EXCEPT ![p] = "fault_sleep"]
  /\ UNCHANGED <<now, should_continue, gateway>>

\* The process dies: the store aborts the transaction of the lost connection.
Crash(p) ==
  /\ pc[p] \notin {"stopped", "crashed"}
  /\ db' = RolledBack(db, tx[p])
  /\ EndTx(p)
  /\ Forget(p)
  /\ pc' = [pc EXCEPT ![p] = "crashed"]
  /\ UNCHANGED <<now, should_continue, gateway>>

\* ---- start_polling: time.sleep(SLEEP) after an empty fetch, then continue
IdleWake(p) ==
  /\ pc[p] = "idle_sleep"
  /\ pc' = [pc EXCEPT ![p] = "loop"]
  /\ UNCHANGED <<db, now, should_continue, tx, tx_start, rows, todo, handled, snapshot, gateway>>

\* The loop ending after a fault instead of going round again.
FaultWakeExits(p) ==
  /\ pc[p] = "fault_sleep"
  /\ pc' = [pc EXCEPT ![p] = "stopped"]
  /\ UNCHANGED <<db, now, should_continue, tx, tx_start, rows, todo, handled, snapshot, gateway>>

\* ---- start_polling: time.sleep(1) after a fault
FaultWake(p) ==
  /\ pc[p] = "fault_sleep"
  /\ pc' = [pc EXCEPT ![p] = "loop"]
  /\ UNCHANGED <<db, now, should_continue, tx, tx_start, rows, todo, handled, snapshot, gateway>>

\* A second passes.
Tick ==
  /\ now < MaxTime
  /\ now' = now + 1
  /\ UNCHANGED <<db, pc, should_continue, tx, tx_start, rows, todo, handled, snapshot, gateway>>

Next ==
  \/ Tick /\ UNCHANGED aux
  \/ (\E p \in Pollers : Stop(p)) /\ UNCHANGED aux
  \/ (\E p \in Pollers : LoopTest(p)) /\ UNCHANGED aux
  \/ (\E p \in Pollers : FetchBatch(p)) /\ UNCHANGED aux
  \/ (\E p \in Pollers, i \in RowIds : HandleUnroutable(p, i)) /\ UNCHANGED aux
  \/ (\E p \in Pollers, i \in RowIds : HandleSent(p, i)) /\ UNCHANGED aux
  \/ (\E p \in Pollers, i \in RowIds : HandleValidationError(p, i)) /\ UNCHANGED aux
  \/ (\E p \in Pollers, i \in RowIds : HandleAuthError(p, i)) /\ UNCHANGED aux
  \/ (\E p \in Pollers, i \in RowIds : HandleHttpError(p, i)) /\ UNCHANGED aux
  \/ (\E p \in Pollers, i \in RowIds : HandleException(p, i)) /\ UNCHANGED aux
  \/ (\E p \in Pollers : Commit(p)) /\ UNCHANGED aux
  \/ (\E p \in Pollers : StoreFault(p)) /\ UNCHANGED aux
  \/ (\E p \in Pollers : Crash(p)) /\ UNCHANGED aux
  \/ (\E p \in Pollers : IdleWake(p)) /\ UNCHANGED aux
  \/ (\E p \in Pollers : FaultWake(p)) /\ UNCHANGED aux

Spec == Init /\ [][Next]_vars

\* -------------------------------------------------------------------------
\* The claim on a store that holds about one batch or more: BATCH_LIMIT - 1
\* to BATCH_LIMIT + 50 rows, all fresh and due except the probed rows, each
\* of which is due, due a second later, or already sent. The pollers claim,
\* and a store fault gives the rows back; no row is handled.
\* -------------------------------------------------------------------------
BatchSizes == {BATCH_LIMIT - 1, BATCH_LIMIT, BATCH_LIMIT + 1, BATCH_LIMIT + 50}
Probes == {1, BATCH_LIMIT, BATCH_LIMIT + 1}

ProbeRow(kind) ==
  IF kind = "later" THEN [InitRow("bucket-a", 0) EXCEPT !.next_attempt_at = 1]
  ELSE IF kind = "sent"
       THEN MarkSent(Claimed(InitRow("bucket-a", 0)), ConfId(0), 0)
       ELSE InitRow("bucket-a", 0)

InitBatch ==
  /\ \E n \in BatchSizes : \E kinds \in [Probes -> {"due", "later", "sent"}] :
       db = [i \in 1..n |-> IF i \in Probes THEN ProbeRow(kinds[i])
                                            ELSE InitRow("bucket-a", 0)]
  /\ now = 0
  /\ pc = [p \in Pollers |-> "loop"]
  /\ should_continue = [p \in Pollers |-> TRUE]
  /\ tx = [p \in Pollers |-> NoRows]
  /\ tx_start = [p \in Pollers |-> 0]
  /\ rows = [p \in Pollers |-> NoRows]
  /\ todo = [p \in Pollers |-> {}]
  /\ handled = [p \in Pollers |-> NoRows]
  /\ snapshot = [p \in Pollers |-> NoRows]
  /\ gateway = {}
  /\ calls = [i \in RowIds |-> 0]
  /\ backoff = NoBackoff

NextBatch ==
  \/ Tick /\ UNCHANGED aux
  \/ (\E p \in Pollers : LoopTest(p)) /\ UNCHANGED aux
  \/ (\E p \in Pollers : FetchBatch(p)) /\ UNCHANGED aux
  \/ (\E p \in Pollers : StoreFault(p)) /\ UNCHANGED aux
  \/ (\E p \in Pollers : IdleWake(p)) /\ UNCHANGED aux
  \/ (\E p \in Pollers : FaultWake(p)) /\ UNCHANGED aux

SpecBatch == InitBatch /\ [][NextBatch]_vars

\* -------------------------------------------------------------------------
\* _backoff_seconds as a function: any attempt count from 0 to
\* MaxBackoffAttempts (the exponent passes the cap of 900 at 10) and any
\* jitter multiplier from 0.80 to 1.20, in steps of 0.01. int() is monotone,
\* so the results for the multipliers in between lie between these.
\* -------------------------------------------------------------------------
JitterPercent == 80..120

InitBackoff ==
  /\ backoff \in [attempts : 0..MaxBackoffAttempts, u : JitterPercent, seconds : {0}]
  /\ db = [i \in RowIds |-> InitRow("bucket-a", 0)]
  /\ now = 0
  /\ pc = [p \in Pollers |-> "loop"]
  /\ should_continue = [p \in Pollers |-> TRUE]
  /\ tx = [p \in Pollers |-> NoRows]
  /\ tx_start = [p \in Pollers |-> 0]
  /\ rows = [p \in Pollers |-> NoRows]
  /\ todo = [p \in Pollers |-> {}]
  /\ handled = [p \in Pollers |-> NoRows]
  /\ snapshot = [p \in Pollers |-> NoRows]
  /\ gateway = {}
  /\ calls = [i \in RowIds |-> 0]

\* ---- the call self._backoff_seconds(attempts)
CallBackoff ==
  /\ backoff.seconds = 0
  /\ backoff' = [backoff EXCEPT !.seconds = BackoffSeconds(backoff.attempts, backoff.u)]
  /\ UNCHANGED <<db, now, pc, should_continue, tx, tx_start, rows, todo, handled, snapshot,
                 gateway, calls>>

NextBackoff == CallBackoff

SpecBackoff == InitBackoff /\ [][NextBackoff]_vars

\* -------------------------------------------------------------------------
\* The retry bound: rows created pending with attempts = 0, pollers that keep
\* cycling, no authentication failure, no fault of the store, no stop and no
\* crash; time advances to the moment the next row is due. Row 1 is routable
\* and runs through its retries, the other rows are unroutable. The gateway
\* calls of each event are counted.
\* -------------------------------------------------------------------------
InitRetry ==
  /\ db = [i \in RowIds |-> InitRow(IF i = 1 THEN "bucket-a" ELSE "bucket-x", 0)]
  /\ now = 0
  /\ pc = [p \in Pollers |-> IF p = 1 THEN "loop" ELSE "stopped"]
  /\ should_continue = [p \in Pollers |-> p = 1]
  /\ tx = [p \in Pollers |-> NoRows]
  /\ tx_start = [p \in Pollers |-> 0]
  /\ rows = [p \in Pollers |-> NoRows]
  /\ todo = [p \in Pollers |-> {}]
  /\ handled = [p \in Pollers |-> NoRows]
  /\ snapshot = [p \in Pollers |-> NoRows]
  /\ gateway = {}
  /\ calls = [i \in RowIds |-> 0]
  /\ backoff = NoBackoff

\* Time passes until the next pending row is due.
Advance ==
  LET due == {db[i].next_attempt_at : i \in {j \in DOMAIN db : /\ db[j].status = "pending"
                                                               /\ db[j].next_attempt_at > now}}
  IN /\ due # {}
     /\ now' = CHOOSE t \in due : \A s \in due : t <= s
     /\ UNCHANGED <<db, pc, should_continue, tx, tx_start, rows, todo, handled, snapshot,
                    gateway>>

\* ---- svix_client.post_event is called for event i
Called(i) == calls' = [calls EXCEPT ![i] = @ + 1] /\ UNCHANGED backoff

\* One step of poller p.
StepRetry(p) ==
  \/ LoopTest(p) /\ UNCHANGED aux
  \/ FetchBatch(p) /\ UNCHANGED aux
  \/ (\E i \in RowIds : HandleUnroutable(p, i)) /\ UNCHANGED aux
  \/ \E i \in RowIds : HandleSent(p, i) /\ Called(i)
  \/ \E i \in RowIds : HandleValidationError(p, i) /\ Called(i)
  \/ \E i \in RowIds : HandleHttpError(p, i) /\ Called(i)
  \/ \E i \in RowIds : HandleException(p, i) /\ Called(i)
  \/ Commit(p) /\ UNCHANGED aux
  \/ IdleWake(p) /\ UNCHANGED aux

NextRetry ==
  \/ Advance /\ UNCHANGED aux
  \/ \E p \in Pollers : StepRetry(p)

\* The clock does not stop, and a poller that can take a step takes one: its
\* loop is a single thread whose sleeps and gateway calls end.
SpecRetry ==
  /\ InitRetry
  /\ [][NextRetry]_vars
  /\ WF_vars(Advance /\ UNCHANGED aux)
  /\ \A p \in Pollers : WF_vars(StepRetry(p))

\* -------------------------------------------------------------------------
\* Claims
\* -------------------------------------------------------------------------

\* C1: no row id is held by two batches whose transactions are open at the
\* same time: what one poller's claimBatch returned is locked by that poller
\* alone, and no other poller's batch contains it, until the transaction
\* commits or aborts.
C1_ClaimExclusive ==
  \A p \in Pollers :
    /\ DOMAIN rows[p] = DOMAIN tx[p]
    /\ \A q \in Pollers \ {p} : DOMAIN rows[p] \cap DOMAIN rows[q] = {}

\* Two pollers hold an open batch at the same time.
C1_Witness ==
  \E p, q \in Pollers : p # q /\ tx[p] # NoRows /\ tx[q] # NoRows

\* C2: when a batch transaction aborts after the claim and before the commit
\* (store fault, exception out of the batch loop, crash), every row the batch
\* had claimed is, in the committed store, exactly as it was before the claim
\* (status pending, same attempts, next_attempt_at and error), also the rows
\* whose outcome was already written, and the next claimBatch picks it.
C2_AbortRestoresClaimedRows ==
  [][\A p \in Pollers :
       (tx[p] # NoRows /\ pc[p] # pc'[p] /\ pc'[p] \in {"fault_sleep", "crashed"})
       => \A i \in DOMAIN tx[p] :
            /\ db'[i] = snapshot[p][i]
            /\ db'[i].status = "pending"
            /\ db'[i].attempts = rows[p][i].attempts
            /\ i \in Picked(db', Locked', now', BATCH_LIMIT)]_vars

\* A fresh row was sent to the gateway and is pending, untouched and
\* unlocked in the committed store, with no authentication failure and no
\* crash anywhere: its batch was aborted by a fault after its outcome was
\* written.
C2_Witness ==
  \E p \in Pollers, i \in RowIds :
    /\ pc[p] = "fault_sleep"
    /\ \A q \in Pollers : should_continue[q] /\ pc[q] # "crashed"
    /\ \E m \in gateway : m.event_id = i
    /\ i \notin Locked
    /\ db[i].status = "pending" /\ db[i].attempts = 0 /\ db[i].error = NULL

\* Poller p ends the pass of the batch loop for row i in this step, with
\* outcome kind.
Handles(p, i, kind) ==
  /\ i \in todo[p]
  /\ i \notin todo'[p]
  /\ i \in DOMAIN handled'[p]
  /\ handled'[p][i] = kind

\* Poller p commits its batch in this step.
Commits(p) == pc[p] = "commit" /\ pc'[p] = "loop"

\* C3: the committed attempts of a row never decreases; a commit raises it by
\* exactly one for a row whose delivery was attempted and succeeded or failed
\* (validation or transient), and leaves it alone for a row that was skipped.
C3_AttemptsCountEveryDelivery ==
  [][\A i \in RowIds :
       /\ db'[i].attempts >= db[i].attempts
       /\ \A p \in Pollers :
            (Commits(p) /\ i \in DOMAIN handled[p]) =>
               /\ handled[p][i] \in {"sent", "validation", "transient"}
                    => db'[i].attempts = db[i].attempts + 1
               /\ handled[p][i] = "skipped" => db'[i].attempts = db[i].attempts]_vars

\* C4: a transient failure of a row claimed with attempts a < MAX_ATTEMPTS - 1
\* leaves it pending with attempts a + 1 and next_attempt_at later than the
\* time of the failure; a transient failure of a row claimed with
\* attempts = MAX_ATTEMPTS - 1 makes it dead with attempts = MAX_ATTEMPTS; no
\* row is claimed with more; the commit stores what was written. From
\* attempts = 0 that is 19 times pending, then dead on the 20th failure.
C4_TransientRetryUntilMaxAttempts ==
  [][\A p \in Pollers, i \in RowIds :
       /\ Handles(p, i, "transient") =>
            LET a == snapshot[p][i].attempts
                w == tx'[p][i]
            IN /\ a = rows[p][i].attempts
               /\ a <= MAX_ATTEMPTS - 1
               /\ a < MAX_ATTEMPTS - 1 =>
                    /\ w.status = "pending"
                    /\ w.attempts = a + 1
                    /\ w.next_attempt_at > now
               /\ a = MAX_ATTEMPTS - 1 =>
                    /\ w.status = "dead"
                    /\ w.attempts = MAX_ATTEMPTS
       /\ (Commits(p) /\ i \in DOMAIN handled[p] /\ handled[p][i] = "transient")
            => db'[i] = tx[p][i]]_vars

\* One batch holds a row claimed at its last attempt, now dead with
\* MAX_ATTEMPTS attempts, and a fresh row, now pending for its first retry.
C4_Witness ==
  \E p \in Pollers, i, j \in RowIds :
    /\ i \in DOMAIN handled[p] /\ handled[p][i] = "transient"
    /\ snapshot[p][i].attempts = MAX_ATTEMPTS - 1
    /\ tx[p][i].status = "dead" /\ tx[p][i].attempts = MAX_ATTEMPTS
    /\ j \in DOMAIN handled[p] /\ handled[p][j] = "transient"
    /\ snapshot[p][j].attempts = 0
    /\ tx[p][j].status = "pending" /\ tx[p][j].attempts = 1
    /\ tx[p][j].next_attempt_at > now

\* The pcs of a poller between its claim and its exit, the loop test
\* included: from none of them does it claim without passing the loop test.
AfterClaim == {"handle", "commit", "loop", "fault_sleep", "stopped", "crashed"}

\* C5: an authentication failure (401) writes the row back as pending with
\* the attempts and next_attempt_at it was claimed with and sets the stop
\* flag; committed, the row is as before the claim and the next claim picks
\* it; the flag is never reset, and with the flag set after a claim the
\* poller never reaches the fetch again.
C5_AuthFailureStopsAndKeepsRow ==
  [][\A p \in Pollers :
       /\ \A i \in RowIds :
            /\ Handles(p, i, "auth") =>
                 /\ tx'[p][i].status = "pending"
                 /\ tx'[p][i].attempts = snapshot[p][i].attempts
                 /\ tx'[p][i].next_attempt_at = snapshot[p][i].next_attempt_at
                 /\ ~should_continue'[p]
            /\ (Commits(p) /\ i \in DOMAIN handled[p] /\ handled[p][i] = "auth") =>
                 /\ db'[i] = snapshot[p][i]
                 /\ i \in Picked(db', Locked', now', BATCH_LIMIT)
       /\ ~should_continue[p] => ~should_continue'[p]
       /\ (~should_continue[p] /\ pc[p] \in AfterClaim) => pc'[p] \in AfterClaim]_vars

\* A row of an open batch was answered with 401: it is pending again and
\* the poller's flag is down.
C5_Witness ==
  \E p \in Pollers, i \in RowIds :
    /\ i \in DOMAIN handled[p] /\ handled[p][i] = "auth"
    /\ tx[p][i].status = "pending"
    /\ ~should_continue[p]
    /\ pc[p] = "commit"

\* C6: setting the stop flag ends no batch. The flag changes without the
\* store or the poller's transaction changing; with the flag set and a
\* batch open, the poller handles the remaining rows one by one, reaches the
\* commit exactly when none is left and commits all of the batch (only a
\* store fault or a crash ends the batch otherwise, and rolls it back); it
\* exits only at the loop test, with no transaction open.
C6_StopNeverAbortsBatch ==
  [][\A p \in Pollers :
       /\ (pc'[p] = "stopped" /\ pc[p] # "stopped") =>
            (pc[p] = "loop" /\ tx[p] = NoRows /\ ~should_continue[p])
       /\ (should_continue[p] /\ ~should_continue'[p]) =>
            (db' = db /\ DOMAIN tx'[p] = DOMAIN tx[p]
               /\ (pc'[p] = pc[p] \/ pc'[p] \in {"handle", "commit"}))
       /\ (tx[p] # NoRows /\ ~should_continue[p]) =>
            \/ /\ DOMAIN tx'[p] = DOMAIN tx[p]
               /\ todo'[p] \subseteq todo[p]
               /\ pc'[p] \in {"handle", "commit"}
               /\ pc'[p] = "commit" <=> todo'[p] = {}
               /\ DOMAIN handled'[p] = DOMAIN tx[p] \ todo'[p]
            \/ /\ Commits(p)
               /\ todo[p] = {}
               /\ DOMAIN handled[p] = DOMAIN tx[p]
               /\ db' = Committed(db, tx[p])
               /\ tx'[p] = NoRows
            \/ /\ pc'[p] \in {"fault_sleep", "crashed"}
               /\ tx'[p] = NoRows
               /\ db' = db]_vars

\* The flag is down in the middle of a batch: one row is written, another
\* is still to handle, and the poller is in the batch loop.
C6_Witness ==
  \E p \in Pollers :
    /\ ~should_continue[p]
    /\ pc[p] = "handle"
    /\ handled[p] # NoRows
    /\ todo[p] # {}

\* C7: a validation error writes the row as dead with one attempt more than
\* it was claimed with, whatever that count; committed, the row is dead with
\* that count, and a dead row is never changed, claimed or sent again.
C7_ValidationFailureIsDead ==
  [][\A p \in Pollers, i \in RowIds :
       /\ Handles(p, i, "validation") =>
            /\ tx'[p][i].status = "dead"
            /\ tx'[p][i].attempts = snapshot[p][i].attempts + 1
       /\ (Commits(p) /\ i \in DOMAIN handled[p] /\ handled[p][i] = "validation") =>
            /\ db'[i].status = "dead"
            /\ db'[i].attempts = db[i].attempts + 1
       /\ db[i].status = "dead" =>
            /\ db'[i] = db[i]
            /\ i \notin DOMAIN tx'[p]
            /\ {m \in gateway' : m.event_id = i} = {m \in gateway : m.event_id = i}]_vars

\* A row claimed at its last attempt was rejected by the gateway and is
\* written dead with MAX_ATTEMPTS attempts.
C7_Witness ==
  \E p \in Pollers, i \in RowIds :
    /\ i \in DOMAIN handled[p] /\ handled[p][i] = "validation"
    /\ snapshot[p][i].attempts = MAX_ATTEMPTS - 1
    /\ tx[p][i].status = "dead" /\ tx[p][i].attempts = MAX_ATTEMPTS

\* C8: a claimed row whose bucket has no application is written as skipped
\* with its attempts unchanged, in a step that calls no gateway; committed it
\* is skipped with the same attempts; the gateway never receives a message
\* for such a row.
C8_UnroutableIsSkipped ==
  [][\A p \in Pollers, i \in RowIds :
       /\ (i \in todo[p] /\ i \notin todo'[p] /\ i \in DOMAIN handled'[p]
             /\ Route(db[i].s3_bucket) = NULL) =>
            /\ handled'[p][i] = "skipped"
            /\ tx'[p][i].status = "skipped"
            /\ tx'[p][i].attempts = snapshot[p][i].attempts
            /\ gateway' = gateway
       /\ (Commits(p) /\ i \in DOMAIN handled[p] /\ handled[p][i] = "skipped") =>
            /\ db'[i].status = "skipped"
            /\ db'[i].attempts = db[i].attempts
       /\ Route(db[i].s3_bucket) = NULL => \A m \in gateway' : m.event_id # i]_vars

\* An unroutable row that earlier runs had retried is skipped in the same
\* batch in which another row fails.
C8_Witness ==
  \E p \in Pollers, i, j \in RowIds :
    /\ i \in DOMAIN handled[p] /\ handled[p][i] = "skipped"
    /\ snapshot[p][i].attempts = MAX_ATTEMPTS - 1
    /\ tx[p][i].status = "skipped" /\ tx[p][i].attempts = MAX_ATTEMPTS - 1
    /\ j \in DOMAIN handled[p] /\ handled[p][j] \in {"transient", "validation"}

\* C9: a committed row with status sent, dead or skipped is never changed
\* again and is in no poller's batch.
C9_TerminalIsFinal ==
  [][\A i \in RowIds :
       db[i].status \in {"sent", "dead", "skipped"} =>
         /\ db'[i] = db[i]
         /\ \A p \in Pollers : i \notin DOMAIN tx[p] /\ i \notin DOMAIN tx'[p]]_vars

\* Every row is terminal, one sent and one dead, and a poller sleeps after a
\* fetch that returned nothing.
C9_Witness ==
  /\ \A i \in RowIds : db[i].status \in {"sent", "dead", "skipped"}
  /\ \E i \in RowIds : db[i].status = "sent"
  /\ \E i \in RowIds : db[i].status = "dead"
  /\ \E p \in Pollers : pc[p] = "idle_sleep"

\* C10: with no row locked by a concurrent claimer, a claim against a store
\* with k eligible rows (pending, next_attempt_at <= now) returns exactly
\* min(BATCH_LIMIT, k) rows, all of them eligible and every one with a lower
\* id than any eligible row left behind; exactly those rows are set to
\* sending, inside the claimer's transaction, and nothing else changes.
C10_ClaimLowestEligible ==
  [][\A p \in Pollers :
       (pc[p] = "fetch" /\ pc'[p] \in {"handle", "idle_sleep"} /\ Locked = {}) =>
         LET E == {i \in DOMAIN db : db[i].status = "pending" /\ db[i].next_attempt_at <= now}
             R == DOMAIN rows'[p]
         IN /\ R \subseteq E
            /\ Cardinality(R) = Min(BATCH_LIMIT, Cardinality(E))
            /\ \A i \in R : \A j \in E \ R : i < j
            /\ tx'[p] = [i \in R |-> [db[i] EXCEPT !.status = "sending"]]
            /\ \A i \in R : rows'[p][i].attempts = db[i].attempts
            /\ db' = db]_vars

\* 150 rows are eligible and a poller, alone, holds exactly the rows 1..100.
C10_Witness ==
  \E p \in Pollers :
    /\ DOMAIN db = 1..(BATCH_LIMIT + 50)
    /\ \A i \in DOMAIN db : db[i].status = "pending" /\ db[i].next_attempt_at <= tx_start[p]
    /\ DOMAIN rows[p] = 1..BATCH_LIMIT
    /\ \A i \in DOMAIN rows[p] : tx[p][i].status = "sending"
    /\ \A q \in Pollers \ {p} : tx[q] = NoRows /\ pc[q] = "loop"

\* C11: within one batch the rows are handled strictly in ascending id order:
\* whenever a poller handles a row (gateway call and outcome write), no row
\* of the same batch with a smaller id is still waiting to be handled.
C11_AscendingOrderInBatch ==
  [][\A p \in Pollers : \A i \in RowIds :
       (i \in todo[p] /\ i \notin todo'[p] /\ i \in DOMAIN handled'[p]) =>
         \A j \in todo[p] : i <= j]_vars

\* The outcomes of handling one row.
Outcomes == {"skipped", "sent", "validation", "auth", "transient"}

\* C12 as stated: every failure while a claimed row is handled, from its
\* routing to the write of its outcome, is converted into a write to that row
\* only: no exception leaves the batch loop, so a poller that is in the loop
\* stays in it or goes on to the commit (unless the process dies).
C12_NoExceptionLeavesBatchLoop ==
  [][\A p \in Pollers :
       pc[p] = "handle" =>
         /\ pc'[p] \in {"handle", "commit", "crashed"}
         /\ \A i \in DOMAIN tx[p] \cap DOMAIN tx'[p] :
              tx'[p][i] # tx[p][i] => \E kind \in Outcomes : Handles(p, i, kind)]_vars

\* C12, amended: an unroutable row and every outcome of the gateway call
\* (success, validation failure, auth failure, HTTP error, any other
\* exception) end in a write to that row only, inside the batch transaction,
\* after which the loop goes on with the remaining rows or, after the last
\* one, to the commit. The only steps that leave the loop otherwise are a
\* fault of the store (also one raised by the write of an outcome) and the
\* death of the process: they make no gateway call and roll the batch back.
C12_GatewayFailuresStayInRow ==
  [][\A p \in Pollers :
       pc[p] = "handle" =>
         \/ /\ pc'[p] = "handle"
            /\ tx'[p] = tx[p] /\ todo'[p] = todo[p] /\ handled'[p] = handled[p]
         \/ \E i \in todo[p] : \E kind \in Outcomes :
              /\ Handles(p, i, kind)
              /\ tx'[p] = [tx[p] EXCEPT ![i] = tx'[p][i]]
              /\ tx'[p][i].status \in {"pending", "sent", "dead", "skipped"}
              /\ \A q \in Pollers \ {p} : tx'[q] = tx[q]
              /\ db' = db
              /\ todo'[p] = todo[p] \ {i}
              /\ pc'[p] = IF todo'[p] = {} THEN "commit" ELSE "handle"
         \/ /\ pc'[p] \in {"fault_sleep", "crashed"}
            /\ gateway' = gateway
            /\ tx'[p] = NoRows
            /\ db' = db]_vars

\* A batch of two rows is ready to commit: the gateway call of one failed
\* (validation, auth or transient) and the other row was delivered.
C12_Witness ==
  \E p \in Pollers : \E i, j \in DOMAIN handled[p] :
    /\ pc[p] = "commit"
    /\ handled[p][i] \in {"validation", "auth", "transient"}
    /\ handled[p][j] = "sent"
    /\ tx[p][i].status \in {"pending", "dead"}
    /\ tx[p][j].status = "sent"

\* C13: a claimed row whose gateway call succeeds with confirmation id c is
\* written with status sent, confirmation id c, sent_at set (to now() of the
\* store, the start of the batch transaction) and error null,
\* whatever error the row carried from earlier failed attempts; that is also
\* what the commit of the batch stores.
C13_SuccessIsSent ==
  [][\A p \in Pollers : \A i \in RowIds :
       /\ Handles(p, i, "sent") =>
            /\ tx'[p][i].status = "sent"
            /\ tx'[p][i].svix_id = ConfId(i)
            /\ tx'[p][i].sent_at = tx_start[p]
            /\ tx'[p][i].error = NULL
       /\ (Commits(p) /\ i \in DOMAIN handled[p] /\ handled[p][i] = "sent") =>
            /\ db'[i].status = "sent"
            /\ db'[i].svix_id = ConfId(i)
            /\ db'[i].sent_at = tx_start[p]
            /\ db'[i].error = NULL]_vars

\* A row that failed before (attempts > 0, so it carried an error text) is
\* committed as sent, with the confirmation id and without the error.
C13_Witness ==
  \E i \in RowIds :
    /\ db[i].status = "sent"
    /\ db[i].attempts > 0
    /\ db[i].svix_id = ConfId(i)
    /\ db[i].error = NULL

\* C14: for every attempt count a >= 0 and every jitter multiplier in
\* [0.8, 1.2] the backoff delay is a whole number of seconds from 1 to 1080
\* (900 * 1.2), and once 2^a >= 900 it lies between 720 and 1080, so it grows
\* no further with a.
C14_BackoffRange ==
  backoff.seconds # 0 =>
    /\ backoff.seconds \in 1..((BACKOFF_CAP_S * 120) \div 100)
    /\ Pow2(backoff.attempts) >= BACKOFF_CAP_S =>
         backoff.seconds \in ((BACKOFF_CAP_S * 80) \div 100)..((BACKOFF_CAP_S * 120) \div 100)

\* The delay of the highest attempt count tried, with the multiplier 0.8, is
\* 720 seconds: what it is for every attempt count from 10 on.
C14_Witness ==
  /\ backoff.attempts = MaxBackoffAttempts
  /\ backoff.u = 80
  /\ backoff.seconds = 720

\* min(900, 2^max(0, a)), the delay before the jitter.
BackoffBase(a) == IF a >= 10 THEN BACKOFF_CAP_S ELSE Pow2(IF a < 0 THEN 0 ELSE a)

C16_EveryRowSettles ==
  /\ <>(\A i \in RowIds : db[i].status \in {"sent", "dead", "skipped"})
  /\ [](\A i \in RowIds : calls[i] <= MAX_ATTEMPTS)

\* The routable row is dead after MAX_ATTEMPTS gateway calls, all of which
\* failed transiently, and the other rows are settled too.
C16_Witness ==
  /\ db[1].status = "dead"
  /\ db[1].attempts = MAX_ATTEMPTS
  /\ calls[1] = MAX_ATTEMPTS
  /\ \A i \in RowIds : db[i].status \in {"sent", "dead", "skipped"}

\* C17: a store fault raised in a polling cycle (acquiring the connection,
\* claiming, writing an outcome, committing) does not end the poller and does
\* not change its stop flag: the transaction of the cycle is rolled back, the
\* poller pauses, returns to the loop test and, if its stop flag is not set,
\* starts a new cycle. A poller ends only at the loop test, with the flag set
\* (or by the death of its process).
C17_StoreFaultKeepsPolling ==
  [][\A p \in Pollers :
       /\ (pc[p] \in {"fetch", "handle", "commit"} /\ pc'[p] = "fault_sleep") =>
            /\ should_continue'[p] = should_continue[p]
            /\ tx'[p] = NoRows
            /\ db' = db
       /\ pc[p] = "fault_sleep" =>
            /\ pc'[p] \in {"fault_sleep", "loop", "crashed"}
            /\ pc'[p] = "loop" => should_continue'[p] = should_continue[p]
       /\ (pc[p] = "loop" /\ pc'[p] \notin {"loop", "crashed"}) =>
            pc'[p] = IF should_continue[p] THEN "fetch" ELSE "stopped"
       /\ (pc[p] # "stopped" /\ pc'[p] = "stopped") =>
            pc[p] = "loop" /\ ~should_continue[p]]_vars

\* A poller pauses after a store fault that ended a batch in which a gateway
\* call had been made: its flag is still set, it holds no row, and every row
\* is pending in the store with the attempts it started with.
C17_Witness ==
  \E p \in Pollers :
    /\ pc[p] = "fault_sleep"
    /\ should_continue[p]
    /\ tx[p] = NoRows
    /\ \E m \in gateway : db[m.event_id].attempts = 0
    /\ \A i \in RowIds : db[i].status = "pending" /\ db[i].attempts \in InitAttempts(i)
    /\ \A q \in Pollers \ {p} : pc[q] = "loop" /\ tx[q] = NoRows

\* C18: every gateway call made for the event with id i, on any attempt and
\* by any poller (also a re-send after an aborted batch), carries the same
\* idempotency key, a function of i only, and two events with different ids
\* never share a key: among all calls made so far, the keys are equal exactly
\* when the event ids are.
C18_IdempotencyKeyPerEvent ==
  \A m1, m2 \in gateway : (m1.key = m2.key) <=> (m1.event_id = m2.event_id)

\* Both events were sent to the gateway, and one of them is being sent again
\* after an attempt that was committed as failed.
C18_Witness ==
  /\ \A i \in RowIds : \E m \in gateway : m.event_id = i
  /\ \E p \in Pollers : \E i \in DOMAIN handled[p] :
       /\ handled[p][i] \in {"sent", "validation", "auth", "transient"}
       /\ snapshot[p][i].attempts = 1
       /\ InitAttempts(i) = {0}

\* C19: no committed state of the store holds a row with status sending:
\* every path through the handler (unroutable, success, validation failure,
\* auth failure, transient failure) writes pending, sent, dead or skipped for
\* its row, so every row of a batch has one of these when the batch commits;
\* and a cycle whose claim returns no rows leaves the store as it was and
\* holds no row.
C19_NoCommittedSending ==
  /\ [](\A i \in DOMAIN db : db[i].status # "sending")
  /\ [][\A p \in Pollers :
          /\ \A i \in RowIds : \A kind \in Outcomes :
               Handles(p, i, kind) =>
                 tx'[p][i].status \in {"pending", "sent", "dead", "skipped"}
          /\ Commits(p) =>
               \A i \in DOMAIN tx[p] :
                 /\ tx[p][i].status \in {"pending", "sent", "dead", "skipped"}
                 /\ db'[i] = tx[p][i]
          /\ (pc[p] = "fetch" /\ pc'[p] = "idle_sleep") =>
               db' = db /\ tx'[p] = NoRows]_vars

\* Batches were committed with a retried row (pending, attempts = 1) and a
\* settled row, and a poller sleeps after a claim that returned no rows.
C19_Witness ==
  /\ \E i \in RowIds : db[i].status = "pending" /\ db[i].attempts = 1
  /\ \E i \in RowIds : db[i].status \in {"sent", "dead", "skipped"}
  /\ \E p \in Pollers : pc[p] = "idle_sleep"

\* C20: rows being created with attempts = 0, in every committed state of
\* the store every row has 0 <= attempts <= MAX_ATTEMPTS and every pending
\* row has attempts < MAX_ATTEMPTS, under any mix of success, validation,
\* auth and transient outcomes and any number of concurrent pollers.
C20_AttemptsBounded ==
  \A i \in DOMAIN db :
    /\ db[i].attempts \in 0..MAX_ATTEMPTS
    /\ db[i].status = "pending" => db[i].attempts < MAX_ATTEMPTS

\* One row is dead with attempts = MAX_ATTEMPTS while another is pending
\* after a failed attempt of its own.
C20_Witness ==
  /\ \E i \in RowIds : db[i].status = "dead" /\ db[i].attempts = MAX_ATTEMPTS
  /\ \E i \in RowIds : db[i].status = "pending" /\ db[i].attempts = 1

====
